---- MODULE Spec2Model ----
(***************************************************************************)
(* Model of the two diagnostic scripts of the repository:                  *)
(*   src/tools/generate_session.py  (generate_session)                     *)
(*   src/tools/test_telegram.py     (test_telegram)                        *)
(* One run of one script is one behaviour.  Every statement of a script    *)
(* body that calls the client library, reads the console or parses a       *)
(* value is one action; its outcome is "ok", "raise" (an Exception is      *)
(* raised by the statement) or "interrupt" (a keyboard interrupt arrives   *)
(* while the statement runs).  Interrupts are followed at the statements   *)
(* of the try bodies, not inside the except and finally blocks.  The body  *)
(* of handle_new_message is not followed: its registration and the list of *)
(* chats it is registered for are.                                         *)
(***************************************************************************)
EXTENDS Integers, Sequences, FiniteSets, TLC

(* ---------------------------- bounds ----------------------------------- *)
\* number of dialogs app.get_dialogs() yields at most
MaxDialogs == 2
\* number of iterations of the sleep loop that are followed
MaxTicks == 1

(* ------------------------- Python values ------------------------------- *)
PyNone == [type |-> "NoneType", s |-> "", n |-> 0]
PyStr(x) == [type |-> "str", s |-> x, n |-> 0]
PyInt(x) == [type |-> "int", s |-> "", n |-> x]

\* The text of the strings int() is applied to, character by character.
Chars ==
  [x \in {"10808", "1080", "-1", "abc", "10x", ""} |->
     CASE x = "10808" -> <<"1", "0", "8", "0", "8">>
       [] x = "1080"  -> <<"1", "0", "8", "0">>
       [] x = "-1"    -> <<"-", "1">>
       [] x = "abc"   -> <<"a", "b", "c">>
       [] x = "10x"   -> <<"1", "0", "x">>
       [] x = ""      -> <<>>]

Digits == <<"0", "1", "2", "3", "4", "5", "6", "7", "8", "9">>

IsDigit(c) == \E i \in 1..10 : Digits[i] = c

DigitVal(c) == (CHOOSE i \in 1..10 : Digits[i] = c) - 1

Unsigned(cs) == IF cs # <<>> /\ Head(cs) \in {"-", "+"} THEN Tail(cs) ELSE cs

\* int(text) succeeds: an optional sign followed by at least one digit
IsIntLiteral(cs) ==
  /\ Unsigned(cs) # <<>>
  /\ \A i \in 1..Len(Unsigned(cs)) : IsDigit(Unsigned(cs)[i])

RECURSIVE DigitsVal(_)
DigitsVal(cs) ==
  IF cs = <<>> THEN 0
  ELSE 10 * DigitsVal(SubSeq(cs, 1, Len(cs) - 1)) + DigitVal(cs[Len(cs)])

\* the value of int(text) for a text that parses
IntOf(cs) ==
  IF cs # <<>> /\ Head(cs) = "-" THEN 0 - DigitsVal(Unsigned(cs))
  ELSE DigitsVal(Unsigned(cs))

(* ------------------------- environment --------------------------------- *)
EnvNames == {"PROXY_HOST", "PROXY_PORT", "PROXY_PROTOCOL",
             "TELEGRAM_API_ID", "TELEGRAM_API_HASH", "TELEGRAM_SESSION_STRING"}

\* the values a variable can be set to in the environments explored
EnvValues(k) ==
  CASE k = "PROXY_HOST"              -> {PyStr("10.0.0.1")}
    [] k = "PROXY_PORT"              -> {PyStr("1080"), PyStr("-1"), PyStr("abc"),
                                         PyStr("10x"), PyStr("")}
    [] k = "PROXY_PROTOCOL"          -> {PyStr("http")}
    [] k = "TELEGRAM_API_ID"         -> {PyStr("12345")}
    [] k = "TELEGRAM_API_HASH"       -> {PyStr("hash_from_env")}
    [] k = "TELEGRAM_SESSION_STRING" -> {PyStr("session_from_env")}

Environments == {e \in [EnvNames -> UNION {EnvValues(k) : k \in EnvNames} \cup {PyNone}] :
                   \A k \in EnvNames : e[k] = PyNone \/ e[k] \in EnvValues(k)}

VARIABLES
  script,          \* which script this run executes
  pc,              \* the statement the run is at
  env,             \* the process environment (after load_dotenv)
  proxy,           \* locals proxy_host, proxy_port, proxy_protocol
  phone_number,    \* local phone_number of generate_session
  app,             \* the Client object, NoApp while app is None / unbound
  started,         \* connect()/start() completed and the client is not yet stopped
  sent_code,       \* sent_code.phone_code_hash, PyNone before send_code returns
  session_string,  \* local session_string of generate_session
  seen,            \* the dialogs app.get_dialogs() has yielded so far
  group_ids,       \* the dict group_ids, as its (key, value) items in insertion order
  handler_chats,   \* the list given to filters.chat, <<>> while no handler is registered
  registered,      \* handle_new_message is registered with app.on_message; the
                   \* library then runs it for messages of handler_chats
  ticks,           \* completed iterations of the sleep loop
  calls,           \* every library / console / parsing call made, with its outcome
  output,          \* what the run printed that the properties speak about
  exc,             \* text of the exception being handled
  pending,         \* what propagates out of the function once its handlers ran
  exit_status      \* exit status of the process, -1 while it runs

vars == <<script, pc, env, proxy, phone_number, app, started, sent_code,
          session_string, seen, group_ids, handler_chats, registered, ticks,
          calls, output, exc, pending, exit_status>>

\* os.getenv(name) / os.getenv(name, default)
getenv(name, default) == IF env[name] = PyNone THEN default ELSE env[name]

Outcomes == {"ok", "raise", "interrupt"}

Call(op, outcome, arg) == [op |-> op, outcome |-> outcome, arg |-> arg]

ExcText(op) == IF op = "int" THEN "invalid literal for int()" ELSE op

\* a keyword argument the call does not pass
NotPassed == [type |-> "not passed", s |-> "", n |-> 0]

NoApp == [none |-> TRUE, api_id |-> NotPassed, api_hash |-> NotPassed,
          session_string |-> NotPassed, scheme |-> NotPassed,
          hostname |-> NotPassed, port |-> NotPassed]

Line(kind, text) == [kind |-> kind, text |-> text]

NoProxy == [proxy_host |-> PyNone, proxy_port |-> PyNone, proxy_protocol |-> PyNone]

Init ==
  /\ script \in {"generate_session", "test_telegram"}
  /\ pc = IF script = "generate_session" THEN "gs_proxy" ELSE "tt_proxy"
  /\ env \in Environments
  /\ proxy = NoProxy
  /\ phone_number = PyNone
  /\ app = NoApp
  /\ started = FALSE
  /\ sent_code = PyNone
  /\ session_string = PyNone
  /\ seen = <<>>
  /\ group_ids = <<>>
  /\ handler_chats = <<>>
  /\ registered = FALSE
  /\ ticks = 0
  /\ calls = <<>>
  /\ output = <<>>
  /\ exc = ""
  /\ pending = "none"
  /\ exit_status = -1

(* ---------------- statements shared by the two scripts ------------------ *)
\* proxy_host / proxy_port / proxy_protocol = os.getenv(...), int(...)
PortText == getenv("PROXY_PORT", PyStr("10808"))

PortParses == IsIntLiteral(Chars[PortText.s])

ProxyLocals ==
  [proxy_host     |-> getenv("PROXY_HOST", PyStr("127.0.0.1")),
   proxy_port     |-> PyInt(IntOf(Chars[PortText.s])),
   proxy_protocol |-> getenv("PROXY_PROTOCOL", PyStr("socks5"))]

\* the outcomes the three configuration lines can have in this environment
ProxyOutcomes == {IF PortParses THEN "ok" ELSE "raise", "interrupt"}

(* ------------------------ generate_session ------------------------------ *)
ApiIdLiteral == 27321288

\* GS_End with the handler swallowing the exception: the body goes on
GS_End_Swallow(op, out, arg, next) ==
  /\ calls' = Append(calls, Call(op, out, arg))
  /\ CASE out \in {"ok", "raise"} ->
            /\ pc' = next
            /\ UNCHANGED <<exc, pending, exit_status>>
       [] out = "interrupt" ->
            /\ pc' = "exited"
            /\ pending' = "KeyboardInterrupt"
            /\ exit_status' = 130
            /\ UNCHANGED exc

\* How a statement of the try body of generate_session ends.  The body has
\* one handler, `except Exception`; a KeyboardInterrupt is not an Exception,
\* so it leaves the function and the interpreter ends the process.
GS_End(op, out, arg, next) ==
  /\ calls' = Append(calls, Call(op, out, arg))
  /\ CASE out = "ok" ->
            /\ pc' = next
            /\ UNCHANGED <<exc, pending, exit_status>>
       [] out = "raise" ->
            /\ pc' = "gs_except"
            /\ exc' = ExcText(op)
            /\ UNCHANGED <<pending, exit_status>>
       [] out = "interrupt" ->
            /\ pc' = "exited"
            /\ pending' = "KeyboardInterrupt"
            /\ exit_status' = 130
            /\ UNCHANGED exc

GS_proxy ==
  /\ pc = "gs_proxy"
  /\ \E out \in ProxyOutcomes :
       /\ proxy' = IF out = "ok" THEN ProxyLocals ELSE proxy
       /\ GS_End("int", out, PortText, "gs_input_phone")
  /\ UNCHANGED <<script, env, phone_number, app, started, sent_code,
                 session_string, seen, group_ids, handler_chats, registered,
                 ticks, output>>

GS_input_phone ==
  /\ pc = "gs_input_phone"
  /\ \E out \in Outcomes :
       /\ phone_number' = IF out = "ok" THEN PyStr("+1234567890") ELSE phone_number
       /\ GS_End("input_phone", out, PyNone, "gs_Client")
  /\ UNCHANGED <<script, env, proxy, app, started, sent_code, session_string,
                 seen, group_ids, handler_chats, registered, ticks, output>>

GS_Client ==
  /\ pc = "gs_Client"
  /\ \E out \in Outcomes :
       /\ app' = IF out = "ok"
                 THEN [none           |-> FALSE,
                       api_id         |-> PyInt(ApiIdLiteral),
                       api_hash       |-> PyStr("5c3202e68b0b9d356e7fc7daaec65e90"),
                       session_string |-> NotPassed,
                       scheme         |-> proxy.proxy_protocol,
                       hostname       |-> proxy.proxy_host,
                       port           |-> proxy.proxy_port]
                 ELSE app
       /\ GS_End("Client", out, PyNone, "gs_connect")
  /\ UNCHANGED <<script, env, proxy, phone_number, started, sent_code,
                 session_string, seen, group_ids, handler_chats, registered,
                 ticks, output>>

GS_connect ==
  /\ pc = "gs_connect"
  /\ \E out \in Outcomes :
       /\ started' = (out = "ok")
       /\ GS_End("connect", out, PyNone, "gs_send_code")
  /\ UNCHANGED <<script, env, proxy, phone_number, app, sent_code,
                 session_string, seen, group_ids, handler_chats, registered,
                 ticks, output>>

GS_send_code ==
  /\ pc = "gs_send_code"
  /\ \E out \in Outcomes :
       /\ sent_code' = IF out = "ok" THEN PyStr("phone_code_hash") ELSE sent_code
       /\ GS_End("send_code", out, phone_number, "gs_input_code")
  /\ UNCHANGED <<script, env, proxy, phone_number, app, started,
                 session_string, seen, group_ids, handler_chats, registered,
                 ticks, output>>

GS_input_code ==
  /\ pc = "gs_input_code"
  /\ \E out \in Outcomes : GS_End("input_code", out, PyNone, "gs_sign_in")
  /\ UNCHANGED <<script, env, proxy, phone_number, app, started, sent_code,
                 session_string, seen, group_ids, handler_chats, registered,
                 ticks, output>>

GS_sign_in ==
  /\ pc = "gs_sign_in"
  /\ \E out \in Outcomes : GS_End("sign_in", out, sent_code, "gs_export")
  /\ UNCHANGED <<script, env, proxy, phone_number, app, started, sent_code,
                 session_string, seen, group_ids, handler_chats, registered,
                 ticks, output>>

GS_export_session_string ==
  /\ pc = "gs_export"
  /\ \E out \in Outcomes :
       /\ session_string' = IF out = "ok" THEN PyStr("exported_session")
                            ELSE session_string
       /\ GS_End("export_session_string", out, PyNone, "gs_print")
  /\ UNCHANGED <<script, env, proxy, phone_number, app, started, sent_code,
                 seen, group_ids, handler_chats, registered, ticks, output>>

\* print(session_string) and the lines around it
GS_print ==
  /\ pc = "gs_print"
  /\ \E out \in {"ok", "interrupt"} :
       /\ output' = IF out = "ok"
                    THEN Append(output, Line("session", session_string.s))
                    ELSE output
       /\ GS_End("print_session_string", out, session_string, "gs_disconnect")
  /\ UNCHANGED <<script, env, proxy, phone_number, app, started, sent_code,
                 session_string, seen, group_ids, handler_chats, registered,
                 ticks>>

\* app.disconnect(), the last statement of the try body; the function then
\* returns and the process ends with status 0
GS_disconnect ==
  /\ pc = "gs_disconnect"
  /\ \E out \in Outcomes :
       /\ started' = IF out = "ok" THEN FALSE ELSE started
       /\ calls' = Append(calls, Call("disconnect", out, PyNone))
       /\ CASE out = "ok" ->
                 /\ pc' = "exited"
                 /\ pending' = "return"
                 /\ exit_status' = 0
                 /\ UNCHANGED exc
            [] out = "raise" ->
                 /\ pc' = "gs_except"
                 /\ exc' = ExcText("disconnect")
                 /\ UNCHANGED <<pending, exit_status>>
            [] out = "interrupt" ->
                 /\ pc' = "exited"
                 /\ pending' = "KeyboardInterrupt"
                 /\ exit_status' = 130
                 /\ UNCHANGED exc
  /\ UNCHANGED <<script, env, proxy, phone_number, app, sent_code,
                 session_string, seen, group_ids, handler_chats, registered,
                 ticks, output>>

\* except Exception as e: print(...{e}); sys.exit(1)
GS_except ==
  /\ pc = "gs_except"
  /\ output' = Append(output, Line("error", exc))
  /\ pending' = "SystemExit"
  /\ exit_status' = 1
  /\ pc' = "exited"
  /\ UNCHANGED <<script, env, proxy, phone_number, app, started, sent_code,
                 session_string, seen, group_ids, handler_chats, registered,
                 ticks, calls, exc>>

GenerateSession ==
  \/ GS_proxy
  \/ GS_input_phone
  \/ GS_Client
  \/ GS_connect
  \/ GS_send_code
  \/ GS_input_code
  \/ GS_sign_in
  \/ GS_export_session_string
  \/ GS_print
  \/ GS_disconnect
  \/ GS_except

(* -------------------------- test_telegram ------------------------------- *)
GMGN_GROUPS ==
  [t \in {"SOL", "ETH", "BTC", "BNB", "AVAX", "MATIC", "ARB", "OP", "BASE",
          "INJ", "TIA", "SEI", "SUI", "APT", "NEAR", "ATOM", "OSMO"} |->
     CASE t = "SOL"   -> "gmgnsignals"
       [] t = "ETH"   -> "gmgnsignalseth"
       [] t = "BTC"   -> "gmgnsignalsbtc"
       [] t = "BNB"   -> "gmgnsignalsbnb"
       [] t = "AVAX"  -> "gmgnsignalsavax"
       [] t = "MATIC" -> "gmgnsignalsmatic"
       [] t = "ARB"   -> "gmgnsignalsarb"
       [] t = "OP"    -> "gmgnsignalsop"
       [] t = "BASE"  -> "gmgnsignalsbase"
       [] t = "INJ"   -> "gmgnsignalsinj"
       [] t = "TIA"   -> "gmgnsignalstia"
       [] t = "SEI"   -> "gmgnsignalssei"
       [] t = "SUI"   -> "gmgnsignalssui"
       [] t = "APT"   -> "gmgnsignalsapt"
       [] t = "NEAR"  -> "gmgnsignalsnear"
       [] t = "ATOM"  -> "gmgnsignalsatom"
       [] t = "OSMO"  -> "gmgnsignalsosmo"]

\* GMGN_GROUPS.values()
GMGN_values == {PyStr(GMGN_GROUPS[t]) : t \in DOMAIN GMGN_GROUPS}

\* the chats get_dialogs can yield in the runs explored: chat.title and
\* chat.username (None for a chat without a public username)
Titles == {PyStr("GMGN Featured Signals"), PyStr("Other title")}
Usernames == {PyStr("gmgnsignals"), PyStr("gmgnsignalseth"),
              PyStr("some_other_chat"), PyNone}

\* chat ids are unique per chat: the i-th dialog yielded has id ChatId(i)
ChatId(i) == 0 - (1000 + i)

\* d[k] = v on a dict kept as its items in insertion order
DictSet(d, k, v) ==
  IF \E i \in 1..Len(d) : d[i][1] = k
  THEN [i \in 1..Len(d) |-> IF d[i][1] = k THEN <<k, v>> ELSE d[i]]
  ELSE Append(d, <<k, v>>)

\* list(d.values())
DictValues(d) == [i \in 1..Len(d) |-> d[i][2]]

\* How a statement of the try body of test_telegram ends.  An Exception goes
\* to `except Exception`.  A keyboard interrupt is either raised inside the
\* coroutine, where `except KeyboardInterrupt` catches it, or it reaches the
\* coroutine as the cancellation asyncio.run performs on the main task, which
\* no except clause of the function catches; the finally block runs in both
\* cases.
TT_End(op, out, arg, next) ==
  /\ calls' = Append(calls, Call(op, out, arg))
  /\ CASE out = "ok" ->
            /\ pc' = next
            /\ UNCHANGED <<exc, pending, exit_status>>
       [] out = "raise" ->
            /\ pc' = "tt_except_Exception"
            /\ exc' = ExcText(op)
            /\ UNCHANGED <<pending, exit_status>>
       [] out = "interrupt" ->
            /\ \/ pc' = "tt_except_KeyboardInterrupt" /\ pending' = pending
               \/ pc' = "tt_finally" /\ pending' = "CancelledError"
            /\ UNCHANGED <<exc, exit_status>>

TT_proxy ==
  /\ pc = "tt_proxy"
  /\ \E out \in ProxyOutcomes :
       /\ proxy' = IF out = "ok" THEN ProxyLocals ELSE proxy
       /\ TT_End("int", out, PortText, "tt_Client")
  /\ UNCHANGED <<script, env, phone_number, app, started, sent_code,
                 session_string, seen, group_ids, handler_chats, registered,
                 ticks, output>>

TT_Client ==
  /\ pc = "tt_Client"
  /\ \E out \in Outcomes :
       /\ app' = IF out = "ok"
                 THEN [none           |-> FALSE,
                       api_id         |-> getenv("TELEGRAM_API_ID", PyNone),
                       api_hash       |-> getenv("TELEGRAM_API_HASH", PyNone),
                       session_string |-> getenv("TELEGRAM_SESSION_STRING", PyNone),
                       scheme         |-> proxy.proxy_protocol,
                       hostname       |-> proxy.proxy_host,
                       port           |-> proxy.proxy_port]
                 ELSE app
       /\ TT_End("Client", out, PyNone, "tt_start")
  /\ UNCHANGED <<script, env, proxy, phone_number, started, sent_code,
                 session_string, seen, group_ids, handler_chats, registered,
                 ticks, output>>

TT_start ==
  /\ pc = "tt_start"
  /\ \E out \in Outcomes :
       /\ started' = (out = "ok")
       /\ TT_End("start", out, PyNone, "tt_get_me")
  /\ UNCHANGED <<script, env, proxy, phone_number, app, sent_code,
                 session_string, seen, group_ids, handler_chats, registered,
                 ticks, output>>

TT_get_me ==
  /\ pc = "tt_get_me"
  /\ \E out \in Outcomes : TT_End("get_me", out, PyNone, "tt_get_dialogs")
  /\ UNCHANGED <<script, env, proxy, phone_number, app, started, sent_code,
                 session_string, seen, group_ids, handler_chats, registered,
                 ticks, output>>

\* one iteration of `async for dialog in app.get_dialogs()`
TT_dialog ==
  /\ pc = "tt_get_dialogs"
  /\ Len(seen) < MaxDialogs
  /\ \E title \in Titles, username \in Usernames :
       LET chat == [id |-> ChatId(Len(seen) + 1), title |-> title,
                    username |-> username]
       IN /\ seen' = Append(seen, chat)
          /\ group_ids' = IF chat.username \in GMGN_values
                          THEN DictSet(group_ids, chat.title, chat.id)
                          ELSE group_ids
  /\ UNCHANGED <<script, pc, env, proxy, phone_number, app, started,
                 sent_code, session_string, handler_chats, registered, ticks,
                 calls, output, exc, pending, exit_status>>

\* the enumeration ends: exhausted, or it raises, or it is interrupted
TT_get_dialogs ==
  /\ pc = "tt_get_dialogs"
  /\ \E out \in Outcomes : TT_End("get_dialogs", out, PyNone, "tt_if_group_ids")
  /\ UNCHANGED <<script, env, proxy, phone_number, app, started, sent_code,
                 session_string, seen, group_ids, handler_chats, registered,
                 ticks, output>>

\* if not group_ids: print(...); return
TT_no_groups ==
  /\ pc = "tt_if_group_ids"
  /\ group_ids = <<>>
  /\ output' = Append(output, Line("no groups", ""))
  /\ pending' = "return"
  /\ pc' = "tt_finally"
  /\ UNCHANGED <<script, env, proxy, phone_number, app, started, sent_code,
                 session_string, seen, group_ids, handler_chats, registered,
                 ticks, calls, exc, exit_status>>

\* TT_on_message without the `if not group_ids: return` before it
TT_on_message_Unguarded ==
  /\ pc = "tt_if_group_ids"
  /\ \E out \in Outcomes :
       /\ handler_chats' = IF out = "ok" THEN DictValues(group_ids)
                           ELSE handler_chats
       /\ registered' = (out = "ok")
       /\ TT_End("on_message", out, PyNone, "tt_sleep")
  /\ UNCHANGED <<script, env, proxy, phone_number, app, started, sent_code,
                 session_string, seen, group_ids, ticks, output>>

\* @app.on_message(filters.chat(list(group_ids.values())))
TT_on_message ==
  /\ pc = "tt_if_group_ids"
  /\ group_ids # <<>>
  /\ \E out \in Outcomes :
       /\ handler_chats' = IF out = "ok" THEN DictValues(group_ids)
                           ELSE handler_chats
       /\ registered' = (out = "ok")
       /\ TT_End("on_message", out, PyNone, "tt_sleep")
  /\ UNCHANGED <<script, env, proxy, phone_number, app, started, sent_code,
                 session_string, seen, group_ids, ticks, output>>

\* while True: await asyncio.sleep(1)
TT_sleep ==
  /\ pc = "tt_sleep"
  /\ \E out \in Outcomes :
       /\ out = "ok" => ticks < MaxTicks
       /\ ticks' = IF out = "ok" THEN ticks + 1 ELSE ticks
       /\ TT_End("sleep", out, PyNone, "tt_sleep")
  /\ UNCHANGED <<script, env, proxy, phone_number, app, started, sent_code,
                 session_string, seen, group_ids, handler_chats, registered,
                 output>>

\* except KeyboardInterrupt: print("Stopping the script...")
TT_except_KeyboardInterrupt ==
  /\ pc = "tt_except_KeyboardInterrupt"
  /\ output' = Append(output, Line("stopping", ""))
  /\ pc' = "tt_finally"
  /\ UNCHANGED <<script, env, proxy, phone_number, app, started, sent_code,
                 session_string, seen, group_ids, handler_chats, registered,
                 ticks, calls, exc, pending, exit_status>>

\* TT_except_Exception without the sys.exit(1)
TT_except_Exception_NoExit ==
  /\ pc = "tt_except_Exception"
  /\ output' = Append(output, Line("error", exc))
  /\ pc' = "tt_finally"
  /\ UNCHANGED <<script, env, proxy, phone_number, app, started, sent_code,
                 session_string, seen, group_ids, handler_chats, registered,
                 ticks, calls, exc, pending, exit_status>>

\* except Exception as e: print(f"Error: {e}"); sys.exit(1)
TT_except_Exception ==
  /\ pc = "tt_except_Exception"
  /\ output' = Append(output, Line("error", exc))
  /\ pending' = "SystemExit"
  /\ pc' = "tt_finally"
  /\ UNCHANGED <<script, env, proxy, phone_number, app, started, sent_code,
                 session_string, seen, group_ids, handler_chats, registered,
                 ticks, calls, exc, exit_status>>

\* the exit status of the process when `what` propagates out of asyncio.run
StatusOf(what) ==
  CASE what \in {"none", "return"} -> 0
    [] what = "CancelledError"     -> 130
    [] OTHER                       -> 1

\* the finally block without its `if app:` test
Truthy_Always(a) == TRUE

\* `if app:` a Client object is truthy, None is not
Truthy(a) == ~a.none

\* finally: if app: await app.stop()  -- then whatever was propagating goes
\* on; an exception raised by stop() replaces it
TT_finally ==
  /\ pc = "tt_finally"
  /\ IF Truthy(app)
     THEN \E out \in {"ok", "raise"} :
            /\ calls' = Append(calls, Call("stop", out, PyNone))
            /\ started' = IF out = "ok" THEN FALSE ELSE started
            /\ pending' = IF out = "ok" THEN pending ELSE "Exception"
     ELSE UNCHANGED <<calls, started, pending>>
  /\ exit_status' = StatusOf(pending')
  /\ pc' = "exited"
  /\ UNCHANGED <<script, env, proxy, phone_number, app, sent_code,
                 session_string, seen, group_ids, handler_chats, registered,
                 ticks, output, exc>>

TestTelegram ==
  \/ TT_proxy
  \/ TT_Client
  \/ TT_start
  \/ TT_get_me
  \/ TT_dialog
  \/ TT_get_dialogs
  \/ TT_no_groups
  \/ TT_on_message
  \/ TT_sleep
  \/ TT_except_KeyboardInterrupt
  \/ TT_except_Exception
  \/ TT_finally

Next == GenerateSession \/ TestTelegram

(* ------------------------------ properties ------------------------------ *)
Exited == pc = "exited"

ConnectOps == {"connect", "start"}

DisconnectOps == {"disconnect", "stop"}

\* the calls made by statements of the try body (stop() is made by the
\* finally block)
BodyCall(i) == calls[i].op # "stop"

Connected(i) ==
  \E j \in 1..(i - 1) : calls[j].op \in ConnectOps /\ calls[j].outcome = "ok"

ErrorPrinted == \E k \in 1..Len(output) : output[k].kind = "error"

\* C1: in both scripts, a keyboard interrupt that arrives after the client
\* was connected/started is followed by a call of disconnect()/stop() before
\* the process ends.
C1_InterruptReachesDisconnect ==
  Exited =>
    \A i \in 1..Len(calls) :
      (calls[i].outcome = "interrupt" /\ Connected(i)) =>
        \E k \in i..Len(calls) : calls[k].op \in DisconnectOps

\* C2: when a step of the script body raises an exception, no later step of
\* the body runs (nothing is retried), and the run ends having printed an
\* error message with the exception text and with a non-zero exit status.
C2_ExceptionPrintsAndExits ==
  \A i \in 1..Len(calls) :
    (BodyCall(i) /\ calls[i].outcome = "raise") =>
      /\ \A j \in (i + 1)..Len(calls) : ~BodyCall(j)
      /\ pc \in {"gs_except", "tt_except_Exception", "tt_finally", "exited"}
      /\ Exited =>
           /\ \E k \in 1..Len(output) :
                output[k] = Line("error", ExcText(calls[i].op))
           /\ exit_status > 0

C2_Witness ==
  /\ Exited
  /\ script = "test_telegram"
  /\ \E i \in 1..Len(calls) : calls[i].op = "get_dialogs" /\ calls[i].outcome = "raise"
  /\ \E i \in 1..Len(calls) : calls[i].op = "stop" /\ calls[i].outcome = "ok"

\* C3: a keyboard interrupt is a normal shutdown in each script: the run that
\* was interrupted prints no error message and does not end with a non-zero
\* exit status.
C3_InterruptIsNormalShutdown ==
  (Exited /\ \E i \in 1..Len(calls) : calls[i].outcome = "interrupt") =>
    /\ ~ErrorPrinted
    /\ pending # "SystemExit"
    /\ exit_status = 0

\* C4: every configuration value passed to the client comes from its
\* environment variable when the variable is set and from a fallback default
\* otherwise, so the client is never constructed with a None value.
EnvOf(field) ==
  CASE field = "api_id"         -> "TELEGRAM_API_ID"
    [] field = "api_hash"       -> "TELEGRAM_API_HASH"
    [] field = "session_string" -> "TELEGRAM_SESSION_STRING"
    [] field = "hostname"       -> "PROXY_HOST"
    [] field = "port"           -> "PROXY_PORT"
    [] field = "scheme"         -> "PROXY_PROTOCOL"

ConfigFields == {"api_id", "api_hash", "session_string", "hostname", "port", "scheme"}

FromEnv(field) ==
  IF field = "port" THEN PyInt(IntOf(Chars[env[EnvOf(field)].s]))
  ELSE env[EnvOf(field)]

C4_ConfigFromEnvOrDefault ==
  Truthy(app) =>
    \A f \in ConfigFields :
      app[f] # NotPassed =>
        /\ app[f] # PyNone
        /\ env[EnvOf(f)] # PyNone => app[f] = FromEnv(f)

\* C5: a PROXY_PORT that is not an integer makes int() raise; the script then
\* prints its error message and ends through its own handler (sys.exit), and
\* no client is constructed, connected, disconnected or stopped.
C5_MalformedPortRejected ==
  /\ ~PortParses => \A i \in 1..Len(calls) :
                      calls[i].op = "int" => calls[i].outcome # "ok"
  /\ (\E i \in 1..Len(calls) : calls[i].op = "int" /\ calls[i].outcome = "raise") =>
       /\ ~PortParses
       /\ app = NoApp
       /\ ~started
       /\ Len(calls) = 1
       /\ Exited =>
            /\ output = <<Line("error", ExcText("int"))>>
            /\ pending = "SystemExit"
            /\ exit_status = 1

C5_Witness ==
  /\ Exited
  /\ script = "test_telegram"
  /\ env["PROXY_PORT"] = PyStr("10x")
  /\ calls = <<Call("int", "raise", PyStr("10x"))>>

\* C6: generate_session makes its calls in one fixed order, each at most
\* once, a call only after every earlier one completed; sign_in gets the
\* phone_code_hash of a send_code that succeeded, and the session string is
\* exported and printed only after sign_in succeeded.
GS_Order == <<"int", "input_phone", "Client", "connect", "send_code",
              "input_code", "sign_in", "export_session_string",
              "print_session_string", "disconnect">>

Succeeded(op) ==
  \E j \in 1..Len(calls) : calls[j].op = op /\ calls[j].outcome = "ok"

C6_GenerateSessionOrder ==
  script = "generate_session" =>
    /\ Len(calls) <= Len(GS_Order)
    /\ \A i \in 1..Len(calls) :
         /\ calls[i].op = GS_Order[i]
         /\ i < Len(calls) => calls[i].outcome = "ok"
         /\ calls[i].op = "sign_in" => calls[i].arg = PyStr("phone_code_hash")
    /\ session_string # PyNone => Succeeded("sign_in")
    /\ (\E k \in 1..Len(output) : output[k].kind = "session") =>
         /\ Succeeded("sign_in")
         /\ Succeeded("export_session_string")

C6_Witness ==
  /\ Exited
  /\ script = "generate_session"
  /\ Len(calls) = Len(GS_Order)
  /\ exit_status = 0
  /\ output = <<Line("session", "exported_session")>>

\* C7: test_telegram registers the handler and enters the sleep loop only
\* when the enumeration found a dialog whose username is in GMGN_GROUPS; when
\* none is found it prints the 'No GMGN signal groups found' message,
\* returns without registering a handler or sleeping, stops the client
\* exactly once and ends without taking the error branch.
Matching == {i \in 1..Len(seen) : seen[i].username \in GMGN_values}

NoGroupsPrinted == \E k \in 1..Len(output) : output[k].kind = "no groups"

Listening ==
  \/ registered
  \/ pc = "tt_sleep"
  \/ \E i \in 1..Len(calls) : calls[i].op \in {"on_message", "sleep"}

C7_HandlerOnlyWithGroups ==
  script = "test_telegram" =>
    /\ Listening => Matching # {} /\ group_ids # <<>> /\ ~NoGroupsPrinted
    /\ (Succeeded("get_dialogs") /\ Matching = {} /\ pc # "tt_if_group_ids") =>
         NoGroupsPrinted
    /\ NoGroupsPrinted =>
         /\ Matching = {}
         /\ ~Listening
         /\ handler_chats = <<>>
         /\ ~ErrorPrinted
         /\ pending # "SystemExit"
         /\ Exited =>
              Cardinality({i \in 1..Len(calls) : calls[i].op = "stop"}) = 1

C7_Witness ==
  /\ Exited
  /\ NoGroupsPrinted
  /\ Len(seen) = 2
  /\ Succeeded("stop")
  /\ exit_status = 0

\* C8: the list given to filters.chat holds the id of every enumerated dialog
\* whose username is a GMGN_GROUPS value, and no id of any other dialog.
C8_HandlerCoversAllMatching ==
  registered =>
    \A i \in 1..Len(seen) :
      (i \in Matching) <=>
        (\E k \in 1..Len(handler_chats) : handler_chats[k] = seen[i].id)

\* C9: a run whose connect()/start() succeeded calls disconnect()/stop()
\* exactly once before the process ends, however the run ends.
C9_DisconnectExactlyOnce ==
  (Exited /\ \E i \in 1..Len(calls) :
               calls[i].op \in ConnectOps /\ calls[i].outcome = "ok") =>
    Cardinality({i \in 1..Len(calls) : calls[i].op \in DisconnectOps}) = 1

\* C10: test_telegram calls app.stop() only on a client whose app.start()
\* completed successfully in the same run.
C10_StopOnlyAfterStart ==
  script = "test_telegram" =>
    \A i \in 1..Len(calls) :
      calls[i].op = "stop" =>
        \E j \in 1..(i - 1) : calls[j].op = "start" /\ calls[j].outcome = "ok"

Spec == Init /\ [][Next]_vars
====
